---- MODULE Spec2Model ----
(***************************************************************************)
(* Model of the service orchestration core of beatrice-core-services:      *)
(*   src/src/daemon/service.py             BaseService, ServiceHealth      *)
(*   src/src/daemon/services/gpu_monitor.py GPUMonitorService              *)
(*   src/src/daemon/core.py                BeatriceDaemon                  *)
(*   src/src/main.py                       the queue consumer, settings    *)
(*                                                                         *)
(* Everything runs on one asyncio event loop: a coroutine runs without     *)
(* interruption from one suspension point to the next, so one action is    *)
(* the code between two suspension points.  The only suspension points of  *)
(* GPUMonitorService.start() are its two asyncio.sleep calls.  Time is     *)
(* discrete (one unit = one second); a sleeping coroutine resumes exactly  *)
(* when its timer reaches 0, and time does not advance while a coroutine   *)
(* is ready to run.  A sampling pass takes no model time.                  *)
(***************************************************************************)
EXTENDS Integers, Sequences, FiniteSets, TLC

\* ------------------------------------------------------------------ bounds
\* Most snapshots the model lets the handoff queue hold (the code's queue is
\* unbounded; the passes of the model wait for the consumer at this length).
MaxQueue == 2
\* Most devices a backend reports.
MaxDevices == 2
\* The count of stop() invocations on one service saturates here.
MaxStopCalls == 3

\* ------------------------------------------------------- program constants
DefaultInterval == 5
MinInterval == 1
StallFactor == 3
BackoffFactor == 2
MaxRecoveryAttempts == 3
RecoveryDelay == 5
RecoverySettle == 1
QueueMaxsize == 0

Intervals == {MinInterval, DefaultInterval}
None == -1

ServiceNames == {"gpu_monitor", "gpu_monitor_2"}
ServiceState == {"INIT", "STARTING", "RUNNING", "STOPPING", "STOPPED", "ERROR", "RECOVERING"}
FallbackModel == "System Stats"
RealModel == "GPU"

VARIABLES
    platform,          \* platform.system(): "Darwin", "Windows", "Linux", "Other"
    NVIDIA_AVAILABLE,  \* the nvidia_smi import succeeded
    backend_devices,   \* devices the host's backend reports
    profiler_output,   \* macOS system_profiler: "none" (the command fails or prints
                       \* nothing), "malformed" (not the expected JSON), "json"
    psutil_ok,         \* the psutil calls succeed
    backend,           \* "healthy": no pass raises; "always_raises"; "flaky"
    services,          \* BeatriceDaemon.services (the registered names)
    registry,          \* which object each name is registered to, which queue
                       \* object each service holds, and daemon.update_queue
    stubborn,          \* registered services whose start() swallows CancelledError
    stop_fails,        \* registered services whose stop() raises when the daemon
                       \* calls it
    intervals,         \* the monitoring intervals this run configures
    svc,               \* name -> the service object's fields
    update_queue,      \* BeatriceDaemon.update_queue
    task,              \* name -> the asyncio task running service.start()
    rec,               \* name -> the coroutine running service.recover()
    failed_cycles,     \* name -> recover() cycles that failed since the last success
    change_clock,      \* name -> seconds since an interval change 5 -> 1 made in a
                       \*         between-pass sleep, until the next pass (else None)
    stop_calls,        \* name -> stop() invocations on the service so far
    daemon,            \* BeatriceDaemon: _is_running, _service_tasks, start()'s position
    stopper,           \* caller -> a BeatriceDaemon.stop() coroutine in progress
    loop_closed,       \* asyncio.run(daemon.start()) has returned
    daemon_stop_calls, \* name -> stop() invocations made by BeatriceDaemon.stop()
    collection_lock,   \* name's _collection_lock: locked, waiters (FIFO)
    pass_pc,           \* caller -> position inside _collect_and_send_stats
    ev                 \* the call that returned in the last step

envVars == <<platform, NVIDIA_AVAILABLE, backend_devices, profiler_output, psutil_ok,
             backend, services, registry, stubborn, stop_fails, intervals>>
svcVars == <<svc, update_queue, task, rec, failed_cycles, change_clock, stop_calls>>
daemonVars == <<daemon, stopper, loop_closed, daemon_stop_calls>>
lockVars == <<collection_lock, pass_pc>>
vars == <<platform, NVIDIA_AVAILABLE, backend_devices, profiler_output, psutil_ok,
          backend, services, registry, stubborn, stop_fails, intervals, svc, update_queue, task, rec, failed_cycles, change_clock, stop_calls,
          daemon, stopper, loop_closed, daemon_stop_calls,
          collection_lock, pass_pc, ev>>

\* ev: the call (op) on service svc that returned ret in the last step, the
\* service's state before it (pre) and what the call did (note).
NoEv == [op |-> "none", svc |-> "-", ret |-> "-", pre |-> "-", note |-> "-"]
Ev(op, s, ret, pre, note) == [op |-> op, svc |-> s, ret |-> ret, pre |-> pre, note |-> note]

\* ------------------------------------------------- service object, helpers
\* GPUMonitorService.__init__ over BaseService.__init__.
NewService(interval, nv) ==
    [state |-> "INIT", is_running |-> FALSE, nvidia_initialized |-> nv,
     last_collection |-> None, monitoring_interval |-> interval,
     recovery_attempts |-> 0, health_status |-> FALSE,
     dependencies |-> <<>>, health_last_error |-> <<>>]

IdleTask == [pc |-> "none", timer |-> 0, cancel |-> FALSE, result |-> "none"]
IdleRec == [pc |-> "none", timer |-> 0]

\* _get_macos_gpu_info: with no output or no display entry it returns the
\* empty list at once; the entries are built with psutil readings; after an
\* exception (unparsable output, psutil) the list is empty and the fallback
\* pseudo-device is built from psutil, if that works.
MacosGpuInfo ==
    IF profiler_output = "none" THEN <<>>
    ELSE IF profiler_output = "json" /\ backend_devices = 0 THEN <<>>
    ELSE IF profiler_output = "json" /\ psutil_ok
         THEN [i \in 1..backend_devices |-> RealModel]
    ELSE IF psutil_ok THEN <<FallbackModel>>
    ELSE <<>>

\* _get_nvidia_gpu_info.
NvidiaGpuInfo(r) ==
    IF r.nvidia_initialized THEN [i \in 1..backend_devices |-> RealModel] ELSE <<>>

\* The backend selection of _collect_and_send_stats.  A constructed service
\* never has a WMI connection (_initialize_wmi raises UnboundLocalError when
\* WMI_AVAILABLE is true), so the Windows branch reads NVML only.
GpuList(r) ==
    IF platform = "Darwin" THEN MacosGpuInfo
    ELSE IF platform \in {"Windows", "Linux"} /\ NVIDIA_AVAILABLE /\ r.nvidia_initialized
         THEN NvidiaGpuInfo(r)
    ELSE <<>>

\* The count without the test for the fallback entry: every entry counts.
ActiveGpusCountsFallback(gl) == Len(gl)

\* The active_gpus expression of _collect_and_send_stats.
ActiveGpus(gl) ==
    IF \E i \in 1..Len(gl) : gl[i] # FallbackModel THEN Len(gl) ELSE 0

Snapshot(r) == [active_gpus |-> ActiveGpus(GpuList(r)), gpus |-> GpuList(r)]

\* queue.Queue(maxsize).put_nowait: queue.Full (the item is dropped by the
\* caller's handler) only when maxsize > 0 and the queue holds maxsize items.
PutNowait(q, x) ==
    IF QueueMaxsize > 0 /\ Len(q) >= QueueMaxsize THEN q ELSE Append(q, x)

\* One sampling pass that does not raise.
CollectAndSendStats(r, q) ==
    [svc |-> [r EXCEPT !.last_collection = 0], queue |-> PutNowait(q, Snapshot(r))]

\* A stop() without its early return: the cleanup runs in every state.
StopRunUnguarded(r) ==
    [svc |-> [r EXCEPT !.is_running = FALSE, !.nvidia_initialized = FALSE,
                       !.state = "STOPPED"],
     ret |-> "True", cleaned |-> TRUE]

\* GPUMonitorService.stop over BaseService.stop: the service after the call,
\* what it returned and whether the cleanup ran.
StopRun(r) ==
    IF r.state \in {"STOPPED", "STOPPING"}
    THEN [svc |-> r, ret |-> "True", cleaned |-> FALSE]
    ELSE [svc |-> [r EXCEPT !.is_running = FALSE, !.nvidia_initialized = FALSE,
                            !.state = "STOPPED"],
          ret |-> "True", cleaned |-> TRUE]

Stop(r) == StopRun(r).svc

\* A check_health() without its stall check.
CheckHealthNoStall(r) ==
    IF r.state # "RUNNING" THEN [status |-> FALSE, last_error |-> "not_running"]
    ELSE [status |-> TRUE, last_error |-> "none"]

\* GPUMonitorService.check_health.
CheckHealth(r) ==
    IF r.state # "RUNNING" THEN [status |-> FALSE, last_error |-> "not_running"]
    ELSE IF r.last_collection # None
            /\ r.last_collection > r.monitoring_interval * StallFactor
         THEN [status |-> FALSE, last_error |-> "stalled"]
    ELSE [status |-> TRUE, last_error |-> "none"]

\* ------------------------------------------------ the start() coroutine
\* Each operator is the code from one suspension point of start() to the
\* next: to |-> "sleep" / "backoff" (suspended, with its timer) or "return"
\* (start() returned ret, its finally block having run stop()).
\* stops: stop() invocations made on the way; passed: a pass was started.
Suspend(r, q, to, t, passed) ==
    [svc |-> r, queue |-> q, to |-> to, timer |-> t, ret |-> "-", stops |-> 0,
     passed |-> passed]
Return(r, q, ret, stops, passed) ==
    [svc |-> r, queue |-> q, to |-> "return", timer |-> 0, ret |-> ret,
     stops |-> stops, passed |-> passed]

\* A start() that marks RUNNING and sleeps before its first pass.
StartEnterSleepFirst(r, q, raises) ==
    IF r.state = "RUNNING" THEN Return(r, q, "True", 0, FALSE)
    ELSE Suspend([r EXCEPT !.is_running = TRUE, !.state = "RUNNING"], q, "sleep",
                 r.monitoring_interval, FALSE)

\* A start() without its early return for a RUNNING service.
StartEnterAlways(r, q, raises) ==
    LET r1 == [r EXCEPT !.is_running = TRUE, !.state = "STARTING"]
    IN  IF raises
        THEN Return(Stop([r1 EXCEPT !.state = "ERROR"]), q, "False", 1, TRUE)
        ELSE LET c == CollectAndSendStats(r1, q)
                 r2 == [c.svc EXCEPT !.state = "RUNNING"]
             IN  Suspend(r2, c.queue, "sleep", r2.monitoring_interval, TRUE)

\* From the call to the first sleep.
StartEnter(r, q, raises) ==
    IF r.state = "RUNNING" THEN Return(r, q, "True", 0, FALSE)
    ELSE LET r1 == [r EXCEPT !.is_running = TRUE, !.state = "STARTING"]
         IN  IF raises
             THEN Return(Stop([r1 EXCEPT !.state = "ERROR"]), q, "False", 1, TRUE)
             ELSE LET c == CollectAndSendStats(r1, q)
                      r2 == [c.svc EXCEPT !.state = "RUNNING"]
                  IN  Suspend(r2, c.queue, "sleep", r2.monitoring_interval, TRUE)

\* A loop whose sleep after a pass lasts the doubled interval.
AfterSleepDoubled(r, q, raises) ==
    IF ~r.is_running THEN Return(Stop(r), q, "None", 1, FALSE)
    ELSE IF raises
         THEN Suspend(r, q, "backoff", r.monitoring_interval * BackoffFactor, TRUE)
    ELSE LET c == CollectAndSendStats(r, q)
         IN  Suspend(c.svc, c.queue, "sleep", c.svc.monitoring_interval * BackoffFactor,
                     TRUE)

\* From the end of the between-pass sleep.
AfterSleep(r, q, raises) ==
    IF ~r.is_running THEN Return(Stop(r), q, "None", 1, FALSE)
    ELSE IF raises
         THEN Suspend(r, q, "backoff", r.monitoring_interval * BackoffFactor, TRUE)
    ELSE LET c == CollectAndSendStats(r, q)
         IN  Suspend(c.svc, c.queue, "sleep", c.svc.monitoring_interval, TRUE)

\* From the end of the backoff sleep.
AfterBackoff(r, q) ==
    IF r.is_running THEN Suspend(r, q, "sleep", r.monitoring_interval, FALSE)
    ELSE Return(Stop(r), q, "None", 1, FALSE)

\* A start() whose loop handles the cancellation of its sleep by going on:
\* one more pass, then the loop's exit test.
CancelledMakesLastPass(r, q, at) ==
    IF at = "sleep"
    THEN Return(Stop(CollectAndSendStats(r, q).svc), CollectAndSendStats(r, q).queue,
                "None", 1, TRUE)
    ELSE Return(Stop([r EXCEPT !.state = "STOPPED"]), q, "True", 1, FALSE)

\* CancelledError raised at the suspension point `at`.
Cancelled(r, q, at) ==
    IF at = "sleep" THEN Return(Stop(r), q, "None", 1, FALSE)
    ELSE Return(Stop([r EXCEPT !.state = "STOPPED"]), q, "True", 1, FALSE)

\* What a pass may do under the backend of this run.
Raises ==
    IF backend = "healthy" THEN {FALSE}
    ELSE IF backend = "always_raises" THEN {TRUE}
    ELSE BOOLEAN

\* ------------------------------------------------------ shared bookkeeping
StopCallsCap == MaxStopCalls
\* stop_calls counts from the daemon's start on.
Bump(f, s, n) ==
    IF daemon.pc = "none" THEN f
    ELSE [f EXCEPT ![s] = IF @ + n > StopCallsCap THEN StopCallsCap ELSE @ + n]

\* A loop of the service is in its between-pass sleep.
InSleep(s) == task[s].pc = "sleep" \/ rec[s].pc = "sleep"

\* The tracked interval change ends with the next pass or with a loop's end.
ClockAfter(s, res) ==
    IF res.passed \/ res.to = "return" THEN [change_clock EXCEPT ![s] = None]
    ELSE change_clock

\* The effect of one step of start() run by the service's task.
TaskStep(s, res) ==
    /\ Len(res.queue) <= MaxQueue
    /\ svc' = [svc EXCEPT ![s] = res.svc]
    /\ update_queue' = res.queue
    /\ task' = [task EXCEPT ![s] =
                  IF res.to = "return"
                  THEN [pc |-> "done", timer |-> 0, cancel |-> FALSE, result |-> res.ret]
                  ELSE [pc |-> res.to, timer |-> res.timer, cancel |-> FALSE,
                        result |-> "none"]]
    /\ stop_calls' = Bump(stop_calls, s, res.stops)
    /\ change_clock' = ClockAfter(s, res)
    /\ ev' = IF res.to = "return" THEN Ev("start", s, res.ret, svc[s].state, "task")
             ELSE NoEv
    /\ UNCHANGED <<envVars, rec, failed_cycles, daemonVars, lockVars>>

\* ------------------------------------------------------- the service task
\* asyncio.create_task(service.start()): the task exists and has not run yet.
CreateTask(s) ==
    /\ task[s].pc \in {"none", "done"}
    /\ task' = [task EXCEPT ![s] = [IdleTask EXCEPT !.pc = "pending"]]
    /\ ev' = NoEv
    /\ UNCHANGED <<envVars, svc, update_queue, rec, failed_cycles, change_clock,
                   stop_calls, daemonVars, lockVars>>

\* The task's first run: start() up to its first sleep (or its return).
TaskStart(s) ==
    /\ task[s].pc = "pending" /\ ~task[s].cancel
    /\ \E raises \in Raises : TaskStep(s, StartEnter(svc[s], update_queue, raises))

\* The between-pass sleep ends.
TaskWake(s) ==
    /\ task[s].pc = "sleep" /\ task[s].timer = 0 /\ ~task[s].cancel
    /\ \E raises \in Raises : TaskStep(s, AfterSleep(svc[s], update_queue, raises))

\* The backoff sleep ends.
TaskWakeBackoff(s) ==
    /\ task[s].pc = "backoff" /\ task[s].timer = 0 /\ ~task[s].cancel
    /\ TaskStep(s, AfterBackoff(svc[s], update_queue))

\* task.cancel(): the request; the CancelledError is delivered when the task
\* next runs.
CancelTask(s) ==
    /\ task[s].pc \in {"pending", "sleep", "backoff"} /\ ~task[s].cancel
    /\ task' = [task EXCEPT ![s].cancel = TRUE]
    /\ ev' = NoEv
    /\ UNCHANGED <<envVars, svc, update_queue, rec, failed_cycles, change_clock,
                   stop_calls, daemonVars, lockVars>>

\* The CancelledError is raised in the task: at its sleep, or, for a task
\* that never ran, before the first line of start().  A start() that swallows
\* the CancelledError goes back to its sleep.
TaskCancelled(s) ==
    /\ task[s].cancel
    /\ IF task[s].pc # "pending" /\ s \in stubborn
       THEN /\ task' = [task EXCEPT ![s].cancel = FALSE]
            /\ ev' = NoEv
            /\ UNCHANGED <<envVars, svc, update_queue, rec, failed_cycles,
                           change_clock, stop_calls, daemonVars, lockVars>>
       ELSE IF task[s].pc = "pending"
       THEN /\ task' = [task EXCEPT ![s] = [pc |-> "done", timer |-> 0,
                                             cancel |-> FALSE, result |-> "cancelled"]]
            /\ ev' = NoEv
            /\ UNCHANGED <<envVars, svc, update_queue, rec, failed_cycles,
                           change_clock, stop_calls, daemonVars, lockVars>>
       ELSE TaskStep(s, Cancelled(svc[s], update_queue, task[s].pc))

\* A direct call of service.stop().
StopCall(s) ==
    /\ svc' = [svc EXCEPT ![s] = StopRun(svc[s]).svc]
    /\ stop_calls' = Bump(stop_calls, s, 1)
    /\ ev' = Ev("stop", s, StopRun(svc[s]).ret, svc[s].state,
                IF StopRun(svc[s]).cleaned THEN "cleanup" ELSE "noop")
    /\ UNCHANGED <<envVars, update_queue, task, rec, failed_cycles, change_clock,
                   daemonVars, lockVars>>

\* A call of service.check_health(): it builds a new ServiceHealth and
\* returns it; nothing of the service is assigned.
\* A check_health() that keeps its result in self.health.
CheckHealthCallStores(s) ==
    /\ ev' = Ev("check_health", s,
                IF CheckHealth(svc[s]).status THEN "healthy" ELSE "unhealthy",
                svc[s].state, CheckHealth(svc[s]).last_error)
    /\ svc' = [svc EXCEPT ![s].health_status = CheckHealth(svc[s]).status]
    /\ UNCHANGED <<envVars, update_queue, task, rec, failed_cycles, change_clock,
                   stop_calls, daemonVars, lockVars>>

\* A call of check_health() on the service; it has no await, so it returns
\* in the step in which it is called.
CheckHealthCall(s) ==
    /\ ev' = Ev("check_health", s,
                IF CheckHealth(svc[s]).status THEN "healthy" ELSE "unhealthy",
                svc[s].state, CheckHealth(svc[s]).last_error)
    /\ UNCHANGED <<envVars, svcVars, daemonVars, lockVars>>

\* An interval change that also restarts the sleep in progress with the new
\* value.
SetIntervalRestartsSleep(s, v) ==
    /\ v \in intervals /\ svc[s].monitoring_interval # v
    /\ svc' = [svc EXCEPT ![s].monitoring_interval = v]
    /\ task' = [task EXCEPT ![s] = IF @.pc = "sleep" THEN [@ EXCEPT !.timer = v] ELSE @]
    /\ change_clock' = [change_clock EXCEPT ![s] = None]
    /\ ev' = NoEv
    /\ UNCHANGED <<envVars, update_queue, rec, failed_cycles, stop_calls,
                   daemonVars, lockVars>>

\* DanteGPU.show_settings: the assignment of a new monitoring_interval.
SetInterval(s, v) ==
    /\ v \in intervals /\ svc[s].monitoring_interval # v
    /\ svc' = [svc EXCEPT ![s].monitoring_interval = v]
    /\ change_clock' = [change_clock EXCEPT ![s] =
                          IF svc[s].monitoring_interval = DefaultInterval
                             /\ v = MinInterval /\ InSleep(s)
                          THEN 0 ELSE None]
    /\ ev' = NoEv
    /\ UNCHANGED <<envVars, update_queue, task, rec, failed_cycles, stop_calls,
                   daemonVars, lockVars>>

\* DanteGPU.check_daemon_queue: get_nowait on the handoff queue.
\* A consumer that takes the newest snapshot instead of the oldest.
ConsumerPollNewest ==
    /\ update_queue # <<>>
    /\ update_queue' = SubSeq(update_queue, 1, Len(update_queue) - 1)
    /\ ev' = Ev("get", "-", "snapshot", "-", "-")
    /\ UNCHANGED <<envVars, svc, task, rec, failed_cycles, change_clock, stop_calls,
                   daemonVars, lockVars>>

\* check_daemon_queue: one get_nowait() of the handoff queue.
ConsumerPoll ==
    /\ update_queue # <<>>
    /\ update_queue' = Tail(update_queue)
    /\ ev' = Ev("get", "-", "snapshot", "-", "-")
    /\ UNCHANGED <<envVars, svc, task, rec, failed_cycles, change_clock, stop_calls,
                   daemonVars, lockVars>>

\* ---------------------------------------------------- BaseService.recover
\* A recover() whose budget check is `>` in place of `>=`.
RecoverEnterOffByOne(r) ==
    IF r.recovery_attempts > MaxRecoveryAttempts
    THEN [svc |-> [r EXCEPT !.state = "ERROR"], to |-> "return", ret |-> "False",
          stops |-> 0]
    ELSE [svc |-> Stop([r EXCEPT !.recovery_attempts = @ + 1, !.state = "RECOVERING"]),
          to |-> "delay", ret |-> "-", stops |-> 1]

\* From the call to the recovery_delay sleep: the budget check, and for a
\* cycle that is attempted the counter, RECOVERING and stop().
RecoverEnter(r) ==
    IF r.recovery_attempts >= MaxRecoveryAttempts
    THEN [svc |-> [r EXCEPT !.state = "ERROR"], to |-> "return", ret |-> "False",
          stops |-> 0]
    ELSE [svc |-> Stop([r EXCEPT !.recovery_attempts = @ + 1, !.state = "RECOVERING"]),
          to |-> "delay", ret |-> "-", stops |-> 1]

\* From the end of the settle sleep: the health check decides the cycle.
RecoverFinish(r) ==
    IF CheckHealth(r).status
    THEN [svc |-> [r EXCEPT !.state = "RUNNING", !.recovery_attempts = 0],
          ret |-> "True"]
    ELSE [svc |-> [r EXCEPT !.state = "ERROR"], ret |-> "False"]

\* The effect of one step of start() run inside recover(): when start()
\* returns, recover() goes on to its settle sleep.
RecStep(s, res) ==
    /\ Len(res.queue) <= MaxQueue
    /\ svc' = [svc EXCEPT ![s] = res.svc]
    /\ update_queue' = res.queue
    /\ rec' = [rec EXCEPT ![s] =
                 IF res.to = "return" THEN [pc |-> "settle", timer |-> RecoverySettle]
                 ELSE [pc |-> res.to, timer |-> res.timer]]
    /\ stop_calls' = Bump(stop_calls, s, res.stops)
    /\ change_clock' = ClockAfter(s, res)
    /\ ev' = IF res.to = "return" THEN Ev("start", s, res.ret, svc[s].state, "recover")
             ELSE NoEv
    /\ UNCHANGED <<envVars, task, failed_cycles, daemonVars, lockVars>>

\* A call of service.recover() (one at a time per service).
RecoverCall(s) ==
    /\ rec[s].pc = "none"
    /\ LET res == RecoverEnter(svc[s])
       IN  /\ svc' = [svc EXCEPT ![s] = res.svc]
           /\ rec' = [rec EXCEPT ![s] =
                        IF res.to = "delay" THEN [pc |-> "delay", timer |-> RecoveryDelay]
                        ELSE IdleRec]
           /\ stop_calls' = Bump(stop_calls, s, res.stops)
           /\ ev' = IF res.to = "return"
                    THEN Ev("recover", s, res.ret, svc[s].state, "exhausted")
                    ELSE Ev("recover_begin", s, "-", svc[s].state, "-")
    /\ UNCHANGED <<envVars, update_queue, task, failed_cycles, change_clock,
                   daemonVars, lockVars>>

\* recovery_delay is over: recover() calls start() in its own coroutine.
RecoverStart(s) ==
    /\ rec[s].pc = "delay" /\ rec[s].timer = 0
    /\ \E raises \in Raises : RecStep(s, StartEnter(svc[s], update_queue, raises))

RecoverWake(s) ==
    /\ rec[s].pc = "sleep" /\ rec[s].timer = 0
    /\ \E raises \in Raises : RecStep(s, AfterSleep(svc[s], update_queue, raises))

RecoverWakeBackoff(s) ==
    /\ rec[s].pc = "backoff" /\ rec[s].timer = 0
    /\ RecStep(s, AfterBackoff(svc[s], update_queue))

\* The settle sleep is over: check_health() and the verdict.
RecoverSettle(s) ==
    /\ rec[s].pc = "settle" /\ rec[s].timer = 0
    /\ LET res == RecoverFinish(svc[s])
       IN  /\ svc' = [svc EXCEPT ![s] = res.svc]
           /\ failed_cycles' = [failed_cycles EXCEPT ![s] =
                                  IF res.ret = "True" THEN 0
                                  ELSE IF @ > MaxRecoveryAttempts THEN @ ELSE @ + 1]
           /\ ev' = Ev("recover", s, res.ret, svc[s].state, "cycle")
    /\ rec' = [rec EXCEPT ![s] = IdleRec]
    /\ UNCHANGED <<envVars, update_queue, task, change_clock, stop_calls,
                   daemonVars, lockVars>>

\* ------------------------------------------------ BaseService dependencies
\* _dependencies is a dict: a sequence of names in insertion order, without
\* repetition.  health_last_error is the list check_dependencies joins into
\* self.health.last_error (empty: never assigned): one entry per failed
\* dependency, error being the " (error)" suffix of one that raised.
HasDependency(r, d) == \E i \in 1..Len(r.dependencies) : r.dependencies[i] = d
NotNamed(d, x) == x # d
Without(deps, d) ==
    SelectSeq(deps, LAMBDA x : NotNamed(d, x))

\* add_dependency(service) and remove_dependency(name).
AddDependency(s, d) ==
    /\ svc' = [svc EXCEPT ![s].dependencies =
                  IF HasDependency(svc[s], d) THEN @ ELSE Append(@, d)]
    /\ ev' = Ev("add_dependency", s, "None", svc[s].state,
                IF HasDependency(svc[s], d) THEN "exists" ELSE "added")
    /\ UNCHANGED <<envVars, update_queue, task, rec, failed_cycles, change_clock,
                   stop_calls, daemonVars, lockVars>>

RemoveDependency(s, d) ==
    /\ svc' = [svc EXCEPT ![s].dependencies = Without(@, d)]
    /\ ev' = Ev("remove_dependency", s, "None", svc[s].state,
                IF HasDependency(svc[s], d) THEN "removed" ELSE "not_found")
    /\ UNCHANGED <<envVars, update_queue, task, rec, failed_cycles, change_clock,
                   stop_calls, daemonVars, lockVars>>

\* The loop of check_dependencies over the dependencies still to visit:
\* failed_deps.  raising: the dependencies whose check_health() raises.
RECURSIVE FailedDeps(_, _, _)
FailedDeps(sv, deps, raising) ==
    IF deps = <<>> THEN <<>>
    ELSE LET d == Head(deps)
             rest == FailedDeps(sv, Tail(deps), raising)
         IN  IF d \in raising THEN <<[dep |-> d, error |-> TRUE]>> \o rest
             ELSE IF ~CheckHealth(sv[d]).status
                  THEN <<[dep |-> d, error |-> FALSE]>> \o rest
             ELSE rest

\* A check_dependencies that takes a dependency whose check_health() raises
\* for one it could not ask, and skips it.
CheckDependenciesSkipsErrors(sv, s, raising) ==
    LET failed == FailedDeps(sv, sv[s].dependencies, {})
    IN  IF sv[s].dependencies = <<>> THEN [svc |-> sv[s], ret |-> "True"]
        ELSE IF failed # <<>>
             THEN [svc |-> [sv[s] EXCEPT !.health_last_error = failed], ret |-> "False"]
        ELSE [svc |-> sv[s], ret |-> "True"]

\* BaseService.check_dependencies on service s: the service after the call
\* and what it returned.
CheckDependencies(sv, s, raising) ==
    LET failed == FailedDeps(sv, sv[s].dependencies, raising)
    IN  IF sv[s].dependencies = <<>> THEN [svc |-> sv[s], ret |-> "True"]
        ELSE IF failed # <<>>
             THEN [svc |-> [sv[s] EXCEPT !.health_last_error = failed], ret |-> "False"]
        ELSE [svc |-> sv[s], ret |-> "True"]

\* A call of check_dependencies(); the check_health() of a GPUMonitorService
\* has no await, so the call returns in the step in which it is made.
CheckDependenciesCall(s, raising) ==
    /\ svc' = [svc EXCEPT ![s] = CheckDependencies(svc, s, raising).svc]
    /\ ev' = Ev("check_dependencies", s, CheckDependencies(svc, s, raising).ret,
                svc[s].state, "-")
    /\ UNCHANGED <<envVars, update_queue, task, rec, failed_cycles, change_clock,
                   stop_calls, daemonVars, lockVars>>

\* --------------------------------------------------------- BeatriceDaemon
DaemonPollInterval == 5
ShutdownTimeout == 5
StopCallers == {"signal", "api"}

\* `second` is the position of a start() called again after a stop(), run as
\* a task of the loop that runs the first start().
IdleDaemon == [is_running |-> FALSE, tasks |-> {}, pc |-> "none", timer |-> 0,
               exit |-> "-", start_time |-> None,
               created |-> [s \in ServiceNames |-> 0],
               second |-> [pc |-> "none", timer |-> 0]]
IdleStopper == [pc |-> "idle", timer |-> 0]

\* A BeatriceDaemon.stop() that stops only the services whose task is still
\* on the daemon's task list.
DaemonStopServicesOfTasks == {s \in services : s \in daemon.tasks}

\* The services BeatriceDaemon.stop() calls stop() on: the whole registry.
DaemonStopServices == services

\* A loop over the services that a raising stop() ends (no try/except around
\* the call): the services registered after the failing one are not reached.
StopLoopReachesUntilFailure(s) ==
    s \in DaemonStopServices /\ (s = "gpu_monitor" \/ "gpu_monitor" \notin stop_fails)

\* The loop at the end of BeatriceDaemon.stop() reaches service s: each call
\* is in a try/except of its own, so the loop goes through the whole registry.
StopLoopReaches(s) == s \in DaemonStopServices

\* The loop over self.services at the end of BeatriceDaemon.stop().
\* A call that raises is caught and logged, and leaves the service as it was.
StopAll(sv) ==
    [s \in ServiceNames |->
       IF StopLoopReaches(s) /\ s \notin stop_fails THEN Stop(sv[s]) ELSE sv[s]]
StopAllCalls == [s \in ServiceNames |-> IF StopLoopReaches(s) THEN 1 ELSE 0]
BumpAll(f) ==
    [s \in ServiceNames |->
       IF StopAllCalls[s] = 0 \/ f[s] >= StopCallsCap THEN f[s] ELSE f[s] + 1]

\* task.cancel() on every task of the list that is not done.
CancelAll(tk, names) ==
    [s \in ServiceNames |->
       IF s \in names /\ tk[s].pc \in {"pending", "sleep", "backoff"}
       THEN [tk[s] EXCEPT !.cancel = TRUE]
       ELSE tk[s]]

\* datetime.now(): an instant later than the stored one (instants are
\* numbered in the order in which they are taken).
Now(d) == d.start_time + 1

\* _start_services(): one new task per registered service, appended to the
\* task list; created[s] counts the tasks ever created for s.
StartServices(d) ==
    [d EXCEPT !.tasks = d.tasks \cup services,
              !.created = [s \in ServiceNames |->
                             IF s \in services THEN d.created[s] + 1
                             ELSE d.created[s]]]
NewTasks(tk) ==
    [s \in ServiceNames |->
       IF s \in services THEN [IdleTask EXCEPT !.pc = "pending"] ELSE tk[s]]

\* asyncio.run(daemon.start()): start() up to the first sleep of its loop.
DaemonStart ==
    /\ daemon.pc = "none"
    /\ daemon' = StartServices([daemon EXCEPT !.start_time = Now(daemon),
                                              !.is_running = TRUE,
                                              !.pc = "sleep",
                                              !.timer = DaemonPollInterval])
    /\ task' = NewTasks(task)
    /\ ev' = NoEv
    /\ UNCHANGED <<envVars, svc, update_queue, rec, failed_cycles, change_clock,
                   stop_calls, stopper, loop_closed, daemon_stop_calls, lockVars>>

\* A start() without its early return.
DaemonStartNeverNoop == FALSE

\* `if self._is_running: return` at the top of BeatriceDaemon.start().
DaemonStartIsNoop == daemon.is_running

\* Another call of start() on the daemon while it is running, up to its
\* return or its first suspension.
DaemonStartAgain ==
    /\ daemon.pc = "sleep" /\ ~loop_closed /\ daemon.is_running
    /\ IF DaemonStartIsNoop
       THEN /\ ev' = Ev("daemon_start", "-", "noop", "-", "-")
            /\ UNCHANGED <<daemon, task>>
       ELSE /\ daemon' = StartServices([daemon EXCEPT !.start_time = Now(daemon),
                                                      !.is_running = TRUE])
            /\ task' = NewTasks(task)
            /\ ev' = Ev("daemon_start", "-", "started", "-", "-")
    /\ UNCHANGED <<envVars, svc, update_queue, rec, failed_cycles, change_clock,
                   stop_calls, stopper, loop_closed, daemon_stop_calls, lockVars>>

\* start() has returned, so asyncio.run cancels every task still pending
\* (a stop() waiting in its gather is cancelled there) and ends the loop.
MainReturns(d, why) == [d EXCEPT !.pc = "done", !.timer = 0, !.exit = why]
AbortStoppers(st) ==
    [k \in StopCallers |-> IF st[k].pc \in {"gather", "cancel_wait"}
                           THEN [pc |-> "aborted", timer |-> 0]
                           ELSE st[k]]

\* A supervisor that takes any finished task for a total failure.
TotalFailureOnAnyExit(live) == live # daemon.tasks /\ services # {}

\* A supervisor that does not look at the registry.
TotalFailureIgnoresRegistry(live) == live = {}

\* `all_tasks_done and self._is_running and self.services`, evaluated while
\* the daemon runs: no task of the list is still active and the registry is
\* not empty.
TotalFailure(live) == live = {} /\ services # {}

\* The supervisory loop wakes from its sleep.
DaemonWake ==
    /\ daemon.pc = "sleep" /\ daemon.timer = 0
    /\ LET live == {s \in daemon.tasks : task[s].pc # "done"}
       IN  IF ~daemon.is_running
           THEN /\ daemon' = MainReturns(daemon, "not_running")
                /\ task' = CancelAll(task, ServiceNames)
                /\ stopper' = AbortStoppers(stopper)
                /\ loop_closed' = TRUE
                /\ ev' = NoEv
                /\ UNCHANGED <<svc, stop_calls, daemon_stop_calls>>
           ELSE IF TotalFailure(live)
           THEN /\ daemon' = MainReturns([daemon EXCEPT !.is_running = FALSE,
                                                         !.tasks = {}], "total_failure")
                /\ svc' = StopAll(svc)
                /\ stop_calls' = BumpAll(stop_calls)
                /\ daemon_stop_calls' = StopAllCalls
                /\ loop_closed' = TRUE
                /\ ev' = Ev("daemon_stop", "supervisor", "done", "-", "-")
                /\ UNCHANGED <<task, stopper>>
           ELSE /\ daemon' = [daemon EXCEPT !.tasks = live, !.timer = DaemonPollInterval]
                /\ ev' = NoEv
                /\ UNCHANGED <<svc, task, stopper, loop_closed, stop_calls,
                               daemon_stop_calls>>
    /\ UNCHANGED <<envVars, update_queue, rec, failed_cycles, change_clock, lockVars>>

\* start() called again after a stop() has cleared _is_running, while the
\* loop of the first start() is still in its polling sleep and the tasks of
\* the first start() have ended: the guard lets the call through, it creates
\* new tasks and enters a supervisory loop of its own, up to its first sleep.
DaemonRestart ==
    /\ daemon.pc = "sleep" /\ daemon.second.pc = "none" /\ ~loop_closed
    /\ ~DaemonStartIsNoop
    /\ \A s \in services : task[s].pc \in {"none", "done"}
    /\ daemon' = StartServices([daemon EXCEPT
                                  !.start_time = Now(daemon),
                                  !.is_running = TRUE,
                                  !.second = [pc |-> "sleep",
                                              timer |-> DaemonPollInterval]])
    /\ task' = NewTasks(task)
    /\ ev' = Ev("daemon_start", "-", "started", "-", "-")
    /\ UNCHANGED <<envVars, svc, update_queue, rec, failed_cycles, change_clock,
                   stop_calls, stopper, loop_closed, daemon_stop_calls, lockVars>>

\* The supervisory loop of the second start() wakes from its sleep.  Its
\* return does not end the event loop, which runs the first start().
DaemonWakeSecond ==
    /\ daemon.second.pc = "sleep" /\ daemon.second.timer = 0 /\ ~loop_closed
    /\ LET live == {s \in daemon.tasks : task[s].pc # "done"}
       IN  IF ~daemon.is_running
           THEN /\ daemon' = [daemon EXCEPT !.second = [pc |-> "done", timer |-> 0]]
                /\ ev' = NoEv
                /\ UNCHANGED <<svc, stop_calls, daemon_stop_calls>>
           ELSE IF TotalFailure(live)
           THEN /\ daemon' = [daemon EXCEPT !.is_running = FALSE, !.tasks = {},
                                            !.second = [pc |-> "done", timer |-> 0]]
                /\ svc' = StopAll(svc)
                /\ stop_calls' = BumpAll(stop_calls)
                /\ daemon_stop_calls' = StopAllCalls
                /\ ev' = Ev("daemon_stop", "supervisor", "done", "-", "-")
           ELSE /\ daemon' = [daemon EXCEPT
                                !.tasks = live,
                                !.second = [pc |-> "sleep",
                                            timer |-> DaemonPollInterval]]
                /\ ev' = NoEv
                /\ UNCHANGED <<svc, stop_calls, daemon_stop_calls>>
    /\ UNCHANGED <<envVars, update_queue, task, rec, failed_cycles, change_clock,
                   stopper, loop_closed, lockVars>>

\* A stop() without its early return.
DaemonStopNeverNoop == FALSE

\* `if not self._is_running: return` at the top of BeatriceDaemon.stop().
DaemonStopIsNoop == ~daemon.is_running

\* BeatriceDaemon.stop() from a signal handler or an explicit call, up to its
\* wait for the cancelled tasks (or to its end when there is no task).
DaemonStopEnter(k) ==
    /\ stopper[k].pc = "idle" /\ daemon.pc = "sleep" /\ ~loop_closed
    /\ IF DaemonStopIsNoop
       THEN /\ ev' = Ev("daemon_stop", k, "noop", "-", "-")
            /\ UNCHANGED <<svc, task, stop_calls, daemon, stopper, daemon_stop_calls>>
       ELSE IF daemon.tasks # {}
       THEN /\ daemon' = [daemon EXCEPT !.is_running = FALSE]
            /\ task' = CancelAll(task, daemon.tasks)
            /\ stopper' = [stopper EXCEPT ![k] = [pc |-> "gather",
                                                  timer |-> ShutdownTimeout]]
            /\ daemon_stop_calls' = [s \in ServiceNames |-> 0]
            /\ ev' = NoEv
            /\ UNCHANGED <<svc, stop_calls>>
       ELSE /\ daemon' = [daemon EXCEPT !.is_running = FALSE]
            /\ svc' = StopAll(svc)
            /\ stop_calls' = BumpAll(stop_calls)
            /\ daemon_stop_calls' = StopAllCalls
            /\ stopper' = [stopper EXCEPT ![k] = [pc |-> "done", timer |-> 0]]
            /\ ev' = Ev("daemon_stop", k, "done", "-", "-")
            /\ UNCHANGED task
    /\ UNCHANGED <<envVars, update_queue, rec, failed_cycles, change_clock,
                   loop_closed, lockVars>>

\* The gather of wait_for(gather(...), 5.0) is done: every task is done.  (A
\* cancelled gather, too, completes only when all its tasks are done.)
GatherOver(k) ==
    \A s \in daemon.tasks : task[s].pc = "done"

\* The timeout of wait_for expires with a task still pending: wait_for
\* cancels the gather, which cancels its tasks again, and goes on waiting for
\* the gather to complete before it raises TimeoutError.
DaemonStopTimeout(k) ==
    /\ stopper[k].pc = "gather" /\ stopper[k].timer = 0 /\ ~GatherOver(k)
    /\ task' = CancelAll(task, daemon.tasks)
    /\ stopper' = [stopper EXCEPT ![k] = [pc |-> "cancel_wait", timer |-> 0]]
    /\ ev' = NoEv
    /\ UNCHANGED <<envVars, svc, update_queue, rec, failed_cycles, change_clock,
                   stop_calls, daemon, loop_closed, daemon_stop_calls, lockVars>>

\* The rest of BeatriceDaemon.stop(): forget the tasks, stop the services.
DaemonStopResume(k) ==
    /\ stopper[k].pc \in {"gather", "cancel_wait"} /\ GatherOver(k)
    /\ daemon' = [daemon EXCEPT !.tasks = {}]
    /\ svc' = StopAll(svc)
    /\ stop_calls' = BumpAll(stop_calls)
    /\ daemon_stop_calls' = StopAllCalls
    /\ stopper' = [stopper EXCEPT ![k] = [pc |-> "done", timer |-> 0]]
    /\ ev' = Ev("daemon_stop", k, "done", "-", "-")
    /\ UNCHANGED <<envVars, update_queue, task, rec, failed_cycles, change_clock,
                   loop_closed, lockVars>>

\* ------------------------------------- the guard of one sampling pass
\* _collect_and_send_stats is `async with self._collection_lock:` around the
\* pass.  The actions above run a pass within one step (the body has no
\* await); here the body is a step of its own, so that the guard is what
\* keeps two triggered passes apart.
Callers == {"a", "b"}
Monitor == "gpu_monitor"
FreeLock == [locked |-> FALSE, waiters |-> <<>>]

\* A guard that lets every caller in.
LockAcquireAlways(l, c) == [lock |-> [l EXCEPT !.locked = TRUE], got |-> TRUE]

\* asyncio.Lock.acquire: taken at once when free with nobody queued, else the
\* caller queues.
LockAcquire(l, c) ==
    IF ~l.locked /\ l.waiters = <<>>
    THEN [lock |-> [l EXCEPT !.locked = TRUE], got |-> TRUE]
    ELSE [lock |-> [l EXCEPT !.waiters = Append(@, c)], got |-> FALSE]

\* asyncio.Lock.release: unlocked; the first waiter is woken.
LockRelease(l) == [l EXCEPT !.locked = FALSE]

\* A caller enters _collect_and_send_stats.
PassTrigger(c) ==
    /\ pass_pc[c] = "idle"
    /\ LET a == LockAcquire(collection_lock, c)
       IN  /\ collection_lock' = a.lock
           /\ pass_pc' = [pass_pc EXCEPT ![c] = IF a.got THEN "in_pass" ELSE "waiting"]
    /\ ev' = NoEv
    /\ UNCHANGED <<envVars, svcVars, daemonVars>>

\* A woken waiter takes the lock.
PassResume(c) ==
    /\ pass_pc[c] = "waiting"
    /\ ~collection_lock.locked /\ Head(collection_lock.waiters) = c
    /\ collection_lock' = [locked |-> TRUE, waiters |-> Tail(collection_lock.waiters)]
    /\ pass_pc' = [pass_pc EXCEPT ![c] = "in_pass"]
    /\ ev' = NoEv
    /\ UNCHANGED <<envVars, svcVars, daemonVars>>

\* The body of the pass ends (or raises) and the lock is released.
PassFinish(c) ==
    /\ pass_pc[c] = "in_pass"
    /\ \E raises \in Raises :
         LET res == IF raises THEN [svc |-> svc[Monitor], queue |-> update_queue]
                    ELSE CollectAndSendStats(svc[Monitor], update_queue)
         IN  /\ Len(res.queue) <= MaxQueue
             /\ svc' = [svc EXCEPT ![Monitor] = res.svc]
             /\ update_queue' = res.queue
             /\ ev' = Ev("pass", Monitor, IF raises THEN "raised" ELSE "ok", "-", c)
    /\ collection_lock' = LockRelease(collection_lock)
    /\ pass_pc' = [pass_pc EXCEPT ![c] = "idle"]
    /\ UNCHANGED <<envVars, task, rec, failed_cycles, change_clock, stop_calls,
                   daemonVars>>

\* -------------------------------------------------------------------- time
Asleep(x) == x.pc \in {"sleep", "backoff", "delay", "settle", "gather"}

\* Some coroutine is ready to run.
Ready ==
    \/ \E s \in ServiceNames :
         \/ task[s].pc = "pending"
         \/ task[s].cancel
         \/ Asleep(task[s]) /\ task[s].timer = 0
         \/ Asleep(rec[s]) /\ rec[s].timer = 0
    \/ Asleep(daemon) /\ daemon.timer = 0
    \/ Asleep(daemon.second) /\ daemon.second.timer = 0
    \/ \E k \in StopCallers :
         \/ stopper[k].pc \in {"gather", "cancel_wait"} /\ GatherOver(k)
         \/ stopper[k].pc = "gather" /\ stopper[k].timer = 0

Down(x) == IF Asleep(x) /\ x.timer > 0 THEN [x EXCEPT !.timer = @ - 1] ELSE x
\* Clocks saturate just above the largest stall threshold of the run.
LongestInterval == CHOOSE i \in intervals : \A j \in intervals : j <= i
ClockCap == StallFactor * LongestInterval + 1
Up(c) == IF c = None \/ c >= ClockCap THEN c ELSE c + 1

\* One second passes.
Tick ==
    /\ ~Ready /\ ~loop_closed
    /\ task' = [s \in ServiceNames |-> Down(task[s])]
    /\ rec' = [s \in ServiceNames |-> Down(rec[s])]
    /\ daemon' = [Down(daemon) EXCEPT !.second = Down(@)]
    /\ stopper' = [k \in StopCallers |-> Down(stopper[k])]
    /\ svc' = [s \in ServiceNames |-> [svc[s] EXCEPT !.last_collection = Up(@)]]
    /\ change_clock' = [s \in ServiceNames |-> Up(change_clock[s])]
    /\ ev' = NoEv
    /\ UNCHANGED <<envVars, update_queue, failed_cycles, stop_calls, loop_closed,
                   daemon_stop_calls, lockVars>>

\* ----------------------------------------------------------- initial states
Platforms == {"Darwin", "Windows", "Linux", "Other"}
ProfilerOutputs == {"none", "malformed", "json"}
Backends == {"healthy", "flaky", "always_raises"}

\* ------------------------------------------------------- register_service
\* Service objects: two GPUMonitorService instances named gpu_monitor, one
\* named gpu_monitor_2, and a service of a class without set_update_queue
\* that is named gpu_monitor_2 as well.
Objects == {"gpu1", "gpu1_dup", "gpu2", "plain2"}
NoObject == "no_object"
Monitor2 == "gpu_monitor_2"
ObjName(o) == IF o \in {"gpu1", "gpu1_dup"} THEN Monitor ELSE Monitor2

\* hasattr(service, 'set_update_queue')
HasHook(o) == o # "plain2"

\* Queue objects: the one BeatriceDaemon.__init__ creates and the one the
\* application creates; NoQueue is a service's update_queue = None.
DaemonQueue == "daemon_queue"
AppQueue == "app_queue"
NoQueue == "no_queue"

\* A new BeatriceDaemon and service objects nobody has registered.
NewRegistry ==
    [services |-> [n \in ServiceNames |-> NoObject],
     service_queue |-> [o \in Objects |-> NoQueue],
     update_queue |-> DaemonQueue]

\* `self.daemon.update_queue = self.daemon_update_queue` of the application.
SetDaemonQueue(reg) == [reg EXCEPT !.update_queue = AppQueue]

\* A register_service that stores the service whatever its name.
RegisterServiceOverwrites(reg, o) ==
    [reg EXCEPT !.services[ObjName(o)] = o,
                !.service_queue[o] = IF HasHook(o) THEN reg.update_queue ELSE @]

\* BeatriceDaemon.register_service(service).
RegisterService(reg, o) ==
    IF reg.services[ObjName(o)] # NoObject
    THEN reg
    ELSE [reg EXCEPT !.services[ObjName(o)] = o,
                     !.service_queue[o] = IF HasHook(o) THEN reg.update_queue ELSE @]

RegisteredNames(reg) == {n \in ServiceNames : reg.services[n] # NoObject}

\* The registry after the application's start-up for the given names: the
\* queue is assigned, then one GPUMonitorService per name is registered.
Registered(names) ==
    LET r0 == SetDaemonQueue(NewRegistry)
        r1 == IF Monitor \in names THEN RegisterService(r0, "gpu1") ELSE r0
    IN  IF Monitor2 \in names THEN RegisterService(r1, "gpu2") ELSE r1

\* The application assigns its queue to the daemon, before it registers.
AssignQueue ==
    /\ registry.update_queue = DaemonQueue /\ services = {}
    /\ daemon.pc = "none"
    /\ registry' = SetDaemonQueue(registry)
    /\ ev' = NoEv
    /\ UNCHANGED <<platform, NVIDIA_AVAILABLE, backend_devices, profiler_output,
                   psutil_ok, backend, services, stubborn, stop_fails, intervals,
                   svcVars, daemonVars, lockVars>>

\* A call of register_service(o), before or after the daemon's start.
Register(o) ==
    /\ ~loop_closed
    /\ registry' = RegisterService(registry, o)
    /\ services' = RegisteredNames(registry')
    /\ ev' = Ev("register_service", o,
                IF registry' = registry THEN "duplicate" ELSE "registered",
                "-", "-")
    /\ UNCHANGED <<platform, NVIDIA_AVAILABLE, backend_devices, profiler_output,
                   psutil_ok, backend, stubborn, stop_fails, intervals,
                   svcVars, daemonVars, lockVars>>

\* The state after construction and registration, for a host, a registry and
\* the constructor arguments.
ConstructedWith(reg, ivs, interval, nv) ==
    /\ registry = reg
    /\ services = RegisteredNames(reg)
    /\ intervals = ivs /\ interval \in ivs
    /\ svc = [s \in ServiceNames |-> NewService(interval, nv)]
    /\ update_queue = <<>>
    /\ task = [s \in ServiceNames |-> IdleTask]
    /\ rec = [s \in ServiceNames |-> IdleRec]
    /\ failed_cycles = [s \in ServiceNames |-> 0]
    /\ change_clock = [s \in ServiceNames |-> None]
    /\ stop_calls = [s \in ServiceNames |-> 0]
    /\ daemon = IdleDaemon
    /\ stopper = [k \in StopCallers |-> IdleStopper]
    /\ loop_closed = FALSE
    /\ daemon_stop_calls = [s \in ServiceNames |-> 0]
    /\ collection_lock = FreeLock
    /\ pass_pc = [c \in Callers |-> "idle"]
    /\ ev = NoEv

Constructed(names, ivs, interval, nv) ==
    ConstructedWith(Registered(names), ivs, interval, nv)

\* Every registered service is a well-behaved GPUMonitorService.
WellBehaved == stubborn = {} /\ stop_fails = {}

\* A Linux host with a working NVML and one device.
LinuxHost ==
    /\ platform = "Linux" /\ NVIDIA_AVAILABLE = TRUE
    /\ backend_devices = 1 /\ profiler_output = "none" /\ psutil_ok = TRUE

\* A Linux host with a working NVML and any number of devices.
LinuxHostAnyDevices ==
    /\ platform = "Linux" /\ NVIDIA_AVAILABLE = TRUE
    /\ backend_devices \in 0..MaxDevices
    /\ profiler_output = "none" /\ psutil_ok = TRUE

\* Any host: the NVML import succeeds only off macOS; nvmlInit may fail;
\* system_profiler exists on macOS only.
AnyHost(nv) ==
    /\ platform \in Platforms
    /\ profiler_output \in ProfilerOutputs
    /\ platform # "Darwin" => profiler_output = "none"
    /\ NVIDIA_AVAILABLE \in BOOLEAN
    /\ NVIDIA_AVAILABLE => platform \in {"Windows", "Linux"}
    /\ nv => NVIDIA_AVAILABLE
    /\ backend_devices \in 0..MaxDevices
    /\ psutil_ok \in BOOLEAN

\* One registered collection service whose task is driven through the
\* service's public interface.
Init ==
    /\ LinuxHost /\ WellBehaved
    /\ backend \in {"healthy", "flaky"}
    /\ \E i \in Intervals : Constructed({Monitor}, {i}, i, TRUE)

LoopNext(s) == TaskStart(s) \/ TaskWake(s) \/ TaskWakeBackoff(s)

Next ==
    \/ CreateTask(Monitor) \/ LoopNext(Monitor)
    \/ CancelTask(Monitor) \/ TaskCancelled(Monitor)
    \/ StopCall(Monitor) \/ CheckHealthCall(Monitor)
    \/ ConsumerPoll \/ Tick

Spec == Init /\ [][Next]_vars

\* The same service with recover() called on it.
InitRecover ==
    /\ LinuxHost /\ WellBehaved
    /\ backend \in {"healthy", "flaky"}
    /\ Constructed({Monitor}, {MinInterval}, MinInterval, TRUE)

NextRecover ==
    \/ RecoverCall(Monitor) \/ RecoverStart(Monitor) \/ RecoverWake(Monitor)
    \/ RecoverWakeBackoff(Monitor) \/ RecoverSettle(Monitor)
    \/ CreateTask(Monitor) \/ LoopNext(Monitor)
    \/ StopCall(Monitor) \/ ConsumerPoll \/ Tick

SpecRecover == InitRecover /\ [][NextRecover]_vars

\* recover() called on a service that nothing else starts, stops or cancels.
\* The event loop runs every coroutine that is ready, time passes, and the
\* application's timer keeps polling the queue.
NextRecoverAlone ==
    \/ RecoverCall(Monitor) \/ RecoverStart(Monitor) \/ RecoverWake(Monitor)
    \/ RecoverWakeBackoff(Monitor) \/ RecoverSettle(Monitor)
    \/ ConsumerPoll \/ Tick

FairRecoverAlone ==
    /\ WF_vars(RecoverStart(Monitor)) /\ WF_vars(RecoverWake(Monitor))
    /\ WF_vars(RecoverWakeBackoff(Monitor)) /\ WF_vars(RecoverSettle(Monitor))
    /\ WF_vars(ConsumerPoll) /\ WF_vars(Tick)

SpecRecoverAlone == InitRecover /\ [][NextRecoverAlone]_vars /\ FairRecoverAlone

\* The same service with its interval changed while it runs.
InitInterval ==
    /\ LinuxHost /\ WellBehaved
    /\ backend \in {"healthy", "flaky"}
    /\ \E i \in Intervals : Constructed({Monitor}, Intervals, i, TRUE)

NextInterval ==
    \/ CreateTask(Monitor) \/ LoopNext(Monitor)
    \/ CancelTask(Monitor) \/ TaskCancelled(Monitor)
    \/ StopCall(Monitor)
    \/ (\E v \in Intervals : SetInterval(Monitor, v))
    \/ ConsumerPoll \/ Tick

SpecInterval == InitInterval /\ [][NextInterval]_vars

\* The daemon supervising any number of registered services.
InitDaemon ==
    /\ LinuxHostAnyDevices /\ WellBehaved
    /\ backend \in Backends
    /\ \E names \in SUBSET ServiceNames :
         Constructed(names, {MinInterval}, MinInterval, TRUE)

NextDaemon ==
    \/ DaemonStart \/ DaemonStartAgain \/ DaemonWake
    \/ (\E k \in StopCallers : DaemonStopEnter(k) \/ DaemonStopResume(k))
    \/ (\E s \in ServiceNames : LoopNext(s) \/ TaskCancelled(s))
    \/ ConsumerPoll \/ Tick

SpecDaemon == InitDaemon /\ [][NextDaemon]_vars

\* The daemon with start() called again after a stop().
NextRestart ==
    \/ DaemonStart \/ DaemonRestart \/ DaemonWake \/ DaemonWakeSecond
    \/ (\E k \in StopCallers : DaemonStopEnter(k) \/ DaemonStopResume(k))
    \/ (\E s \in ServiceNames : LoopNext(s) \/ TaskCancelled(s))
    \/ Tick

SpecRestart == InitDaemon /\ [][NextRestart]_vars

\* Registration: a new daemon, the application's queue assignment, calls of
\* register_service in any order and number, and the daemon's start.
InitRegister ==
    /\ LinuxHost /\ WellBehaved
    /\ backend = "healthy"
    /\ ConstructedWith(NewRegistry, {MinInterval}, MinInterval, TRUE)

NextRegister ==
    \/ AssignQueue
    \/ (\E o \in Objects : Register(o))
    \/ DaemonStart \/ DaemonStartAgain

SpecRegister == InitRegister /\ [][NextRegister]_vars

\* Two services, the first of which has dependencies: itself or the other.
\* Each service is started and stopped, so that a dependency is found in
\* INIT, RUNNING and STOPPED; time does not pass.
InitDeps ==
    /\ LinuxHost /\ WellBehaved
    /\ backend = "healthy"
    /\ Constructed(ServiceNames, {MinInterval}, MinInterval, TRUE)

NextDeps ==
    \/ (\E s \in ServiceNames : CreateTask(s) \/ TaskStart(s) \/ StopCall(s))
    \/ (\E d \in ServiceNames : AddDependency(Monitor, d) \/ RemoveDependency(Monitor, d))
    \/ (\E raising \in SUBSET ServiceNames : CheckDependenciesCall(Monitor, raising))
    \/ CheckHealthCall(Monitor)

SpecDeps == InitDeps /\ [][NextDeps]_vars

\* The daemon's shutdown when the service registered first may ignore its
\* cancellation or fail in stop().
InitShutdown ==
    /\ LinuxHost
    /\ backend \in {"healthy", "flaky"}
    /\ \E names \in {{Monitor}, ServiceNames} :
         Constructed(names, {MinInterval}, MinInterval, TRUE)
    /\ stubborn \in SUBSET {Monitor}
    /\ stop_fails \in SUBSET {Monitor}

NextShutdown ==
    \/ DaemonStart \/ DaemonWake
    \/ (\E k \in StopCallers :
           DaemonStopEnter(k) \/ DaemonStopTimeout(k) \/ DaemonStopResume(k))
    \/ (\E s \in ServiceNames : LoopNext(s) \/ TaskCancelled(s))
    \/ ConsumerPoll \/ Tick

SpecShutdown == InitShutdown /\ [][NextShutdown]_vars

\* Passes of one service triggered by two callers, on any host.
InitLock ==
    /\ \E nv \in BOOLEAN :
         AnyHost(nv) /\ Constructed({Monitor}, {MinInterval}, MinInterval, nv)
    /\ backend \in {"healthy", "flaky"} /\ WellBehaved

NextLock ==
    \/ (\E c \in Callers : PassTrigger(c) \/ PassResume(c) \/ PassFinish(c))
    \/ ConsumerPoll

SpecLock == InitLock /\ [][NextLock]_vars

\* One service on any host.
InitHost ==
    /\ \E nv \in BOOLEAN :
         AnyHost(nv) /\ Constructed({Monitor}, {MinInterval}, MinInterval, nv)
    /\ backend \in {"healthy", "flaky"} /\ WellBehaved

NextHost ==
    \/ CreateTask(Monitor) \/ LoopNext(Monitor) \/ StopCall(Monitor)
    \/ ConsumerPoll \/ Tick

SpecHost == InitHost /\ [][NextHost]_vars

\* ------------------------------------------------------------------ claims
\* A BeatriceDaemon.stop() ran to its end (from a caller or from the
\* supervisory loop's total-failure path).
DaemonStopDone ==
    \/ \E k \in StopCallers : stopper[k].pc = "done"
    \/ daemon.exit = "total_failure"

\* C1 (amended): once BeatriceDaemon.stop() has completed, it has itself
\* called stop() on every registered service exactly once, whether the
\* service's task was running or had already exited; counting the call made
\* by the finally block of the service's own start(), stop() has been invoked
\* on each service once or twice.
C1_DaemonStopsEachServiceOnce ==
    DaemonStopDone =>
        \A s \in services : daemon_stop_calls[s] = 1 /\ stop_calls[s] \in {1, 2}

\* C1 as stated: after the daemon's stop() completes, stop() has been invoked
\* exactly once on every registered service.
C1_StopInvokedExactlyOnce ==
    DaemonStopDone => \A s \in services : stop_calls[s] = 1

\* A caller's stop() completed with two services registered, one whose task
\* had exited on its own and one whose task was cancelled in its sleep.
C1_Witness ==
    /\ stopper["signal"].pc = "done" /\ services = ServiceNames
    /\ task["gpu_monitor"].result = "False"
    /\ task["gpu_monitor_2"].result = "None"

\* C2 as stated: whenever start() returns True the service is RUNNING, and,
\* no pass having failed, check_health() reports healthy.
C2_StartTrueMeansRunning ==
    (ev.op = "start" /\ ev.ret = "True") =>
        /\ svc[ev.svc].state = "RUNNING"
        /\ backend = "healthy" => CheckHealth(svc[ev.svc]).status

\* C3: a stop() called on a service that is STOPPED or STOPPING returns True,
\* does not run the cleanup and changes nothing of the service, its task or
\* the queue.
C3_StopIsIdempotent ==
    [][\A s \in services :
          (svc[s].state \in {"STOPPED", "STOPPING"} /\ ev'.op = "stop" /\ ev'.svc = s)
          => /\ ev'.ret = "True" /\ ev'.note = "noop"
             /\ svc' = svc /\ task' = task /\ update_queue' = update_queue]_vars

\* A stop() has just returned on a service that was already STOPPED.
C3_Witness ==
    ev.op = "stop" /\ ev.pre = "STOPPED" /\ ev.ret = "True" /\ ev.note = "noop"

\* C4: a failed recover() cycle leaves the service in ERROR, and after
\* MaxRecoveryAttempts consecutive failed cycles a further recover() returns
\* False at once: it starts no cycle, calls neither stop() nor start(), does
\* not increment recovery_attempts and leaves the state ERROR.
C4_RecoveryBudgetExhausted ==
    [][\A s \in services :
          /\ (rec[s].pc = "settle" /\ rec'[s].pc = "none"
                 /\ failed_cycles'[s] = MaxRecoveryAttempts)
              => svc'[s].state = "ERROR"
          /\ (failed_cycles[s] = MaxRecoveryAttempts /\ rec[s].pc = "none"
                 /\ ev'.op \in {"recover", "recover_begin"} /\ ev'.svc = s)
              => /\ ev'.op = "recover" /\ ev'.ret = "False"
                 /\ svc' = [svc EXCEPT ![s].state = "ERROR"]
                 /\ rec' = rec /\ task' = task /\ update_queue' = update_queue
                 /\ stop_calls' = stop_calls]_vars

\* A recover() was refused after MaxRecoveryAttempts failed cycles.
C4_Witness ==
    /\ ev.op = "recover" /\ ev.ret = "False" /\ ev.note = "exhausted"
    /\ failed_cycles[Monitor] = MaxRecoveryAttempts
    /\ svc[Monitor].state = "ERROR"
    /\ svc[Monitor].recovery_attempts = MaxRecoveryAttempts

\* C5 as stated: with a collection service whose every pass raises, the
\* started daemon stays alive as long as nobody asks it to stop: its
\* supervisory loop keeps running and it has not shut itself down.
C5_DaemonSurvivesFailingService ==
    (/\ backend = "always_raises" /\ services = {Monitor}
     /\ daemon.pc # "none"
     /\ \A k \in StopCallers : stopper[k].pc = "idle")
    => daemon.is_running /\ daemon.pc = "sleep" /\ daemon.exit = "-"

\* C6: at most one sampling pass of a service is in progress at any time,
\* and a pass in progress holds the guard; a second caller waits until the
\* first pass has finished.
C6_PassesNeverOverlap ==
    /\ Cardinality({c \in Callers : pass_pc[c] = "in_pass"}) <= 1
    /\ (\E c \in Callers : pass_pc[c] = "in_pass") => collection_lock.locked

\* One caller is inside its pass while the other, triggered meanwhile, waits.
C6_Witness ==
    pass_pc["a"] = "in_pass" /\ pass_pc["b"] = "waiting"

C8_StallDetected ==
    \A s \in services :
        (\/ svc[s].last_collection = None
         \/ svc[s].last_collection > StallFactor * svc[s].monitoring_interval)
        => /\ ~CheckHealth(svc[s]).status
           /\ CheckHealth(svc[s]).last_error # "none"

\* check_health() has just reported a RUNNING service unhealthy because its
\* last collection is more than StallFactor intervals old.
C8_Witness ==
    /\ ev.op = "check_health" /\ ev.ret = "unhealthy" /\ ev.note = "stalled"
    /\ svc[Monitor].state = "RUNNING"
    /\ svc[Monitor].last_collection > StallFactor * svc[Monitor].monitoring_interval

\* The host offers no backend at all: no NVML library off macOS, no
\* system_profiler output on macOS.
HostHasNoBackend ==
    \/ platform = "Darwin" /\ profiler_output = "none"
    \/ platform \in {"Windows", "Linux"} /\ ~NVIDIA_AVAILABLE
    \/ platform = "Other"

\* C9 as stated: on a host with no backend at all, every snapshot a pass
\* produced holds exactly one fallback pseudo-device and an active device
\* count of 0.
C9_FallbackDeviceWithoutBackend ==
    HostHasNoBackend =>
        \A i \in 1..Len(update_queue) :
            /\ update_queue[i].gpus = <<FallbackModel>>
            /\ update_queue[i].active_gpus = 0

\* C10 (amended): an interval change from 5 to 1 made inside the loop's
\* between-pass sleep does not shorten that sleep; the next pass starts when
\* the sleep in progress expires, at most DefaultInterval seconds after the
\* change.
C10_NextPassAfterCurrentSleep ==
    \A s \in services :
        change_clock[s] # None =>
            /\ task[s].pc = "sleep"
            /\ change_clock[s] + task[s].timer <= DefaultInterval

\* C10 as stated: after the change the next pass starts within about
\* MinInterval seconds (one more second is allowed for "about").
C10_NextPassWithinNewInterval ==
    \A s \in services :
        change_clock[s] # None => change_clock[s] <= MinInterval + 1

\* The interval was changed right after a pass and the loop is about to
\* start its next pass a full DefaultInterval seconds later.
C10_Witness ==
    /\ change_clock[Monitor] = DefaultInterval
    /\ svc[Monitor].monitoring_interval = MinInterval
    /\ task[Monitor].pc = "sleep" /\ task[Monitor].timer = 0
    /\ svc[Monitor].is_running /\ ~task[Monitor].cancel

\* C11: a change of monitoring_interval restarts nothing and leaves the task
\* and its sleep in progress as they are; a sleep in progress only counts
\* down, second by second, from the duration it started with; and every
\* between-pass sleep that begins lasts the monitoring_interval of that
\* moment, so every sleep begun after a change uses the new value.
C11_IntervalChangeAppliesToNextSleep ==
    [][\A s \in services :
          /\ svc'[s].monitoring_interval # svc[s].monitoring_interval
             => /\ task' = task
                /\ svc' = [svc EXCEPT ![s].monitoring_interval =
                                          svc'[s].monitoring_interval]
          /\ (task'[s].pc = "sleep"
                 /\ (task[s].pc # "sleep" \/ task'[s].timer > task[s].timer))
             => task'[s].timer = svc'[s].monitoring_interval
          /\ (task[s].pc = "sleep" /\ task'[s].pc = "sleep"
                 /\ task'[s].timer <= task[s].timer)
             => task'[s].timer \in {task[s].timer, task[s].timer - 1}]_vars

\* The interval was changed from 5 to 1 inside a sleep, and the sleep still
\* has more than the new interval to run.
C11_Witness ==
    /\ change_clock[Monitor] # None /\ change_clock[Monitor] > 0
    /\ svc[Monitor].monitoring_interval = MinInterval
    /\ task[Monitor].pc = "sleep" /\ task[Monitor].timer > MinInterval

\* C12: with a healthy backend, the first run of a service task the daemon
\* created performs one sampling pass before its first sleep: it appends a
\* snapshot whose device list and active device count equal the number of
\* devices the backend reports; no time passes between the task's creation
\* and that pass; and a service becomes RUNNING only in a step that completes
\* a pass.
C12_FirstPassBeforeFirstSleep ==
    [][\A s \in services :
          /\ (backend = "healthy" /\ task[s].pc = "pending" /\ ~task[s].cancel
                 /\ task'[s].pc # "pending")
             => /\ task'[s].pc = "sleep"
                /\ task'[s].timer = svc[s].monitoring_interval
                /\ svc'[s].state = "RUNNING"
                /\ update_queue' =
                      Append(update_queue,
                             [active_gpus |-> backend_devices,
                              gpus |-> [i \in 1..backend_devices |-> RealModel]])
          /\ task[s].pc = "pending" => daemon'.timer >= daemon.timer
          /\ (svc[s].state # "RUNNING" /\ svc'[s].state = "RUNNING")
             => svc'[s].last_collection = 0 /\ Len(update_queue') = Len(update_queue) + 1
      ]_vars

\* Right after the daemon's start, before any time has passed, the service
\* is RUNNING in its first sleep and the queue holds a snapshot counting all
\* the devices of the backend.
C12_Witness ==
    /\ backend = "healthy" /\ backend_devices = MaxDevices
    /\ daemon.pc = "sleep" /\ daemon.timer = DaemonPollInterval
    /\ task[Monitor].pc = "sleep" /\ svc[Monitor].state = "RUNNING"
    /\ update_queue # <<>> /\ update_queue[1].active_gpus = MaxDevices

\* C13: when BeatriceDaemon.stop() has completed, it has called stop() on
\* every registered service, whether the service's task had exited before or
\* not and whether or not the stop() of another service raised; every
\* service whose stop() did not raise is STOPPED.
C13_StopFailureDoesNotAbortShutdown ==
    DaemonStopDone =>
        \A s \in services :
            /\ daemon_stop_calls[s] = 1
            /\ s \notin stop_fails => svc[s].state = "STOPPED"

\* A caller's stop() completed although the stop() of the service registered
\* first raised; that service's task had exited on its own, and the service
\* registered after it was stopped.
C13_Witness ==
    /\ stopper["signal"].pc = "done"
    /\ services = ServiceNames /\ stop_fails = {"gpu_monitor"}
    /\ task["gpu_monitor"].result = "False"
    /\ daemon_stop_calls["gpu_monitor"] = 1 /\ daemon_stop_calls["gpu_monitor_2"] = 1
    /\ svc["gpu_monitor_2"].state = "STOPPED"

\* C14 as stated: while the event loop runs, a BeatriceDaemon.stop() that has
\* begun is inside its bounded wait for the cancelled tasks or has completed;
\* it is never left waiting once the bound has expired.
C14_StopProceedsAfterTimeout ==
    ~loop_closed => \A k \in StopCallers : stopper[k].pc \in {"idle", "gather", "done"}

\* The supervisory loop of a running daemon wakes in this step.
SupervisorWakes ==
    /\ daemon.pc = "sleep" /\ daemon.timer = 0 /\ daemon.is_running
    /\ daemon' # daemon /\ stopper' = stopper

\* C15: the supervisor wakes at most DaemonPollInterval seconds after it went
\* to sleep; when it wakes while the daemon runs and every service task has
\* finished with at least one service registered, it runs the daemon's
\* stop() (every registered service is stopped) and its loop ends; with no
\* service registered it goes back to sleep with the daemon running, and a
\* daemon without services never takes the total-failure exit.
C15_TotalFailureDetection ==
    [][/\ daemon.pc = "sleep" => daemon.timer <= DaemonPollInterval
       /\ (SupervisorWakes /\ services # {}
              /\ \A s \in daemon.tasks : task[s].pc = "done")
          => /\ daemon'.exit = "total_failure" /\ daemon'.pc = "done"
             /\ ~daemon'.is_running
             /\ \A s \in services :
                    daemon_stop_calls'[s] = 1 /\ svc'[s].state = "STOPPED"
       /\ (SupervisorWakes /\ services = {})
          => /\ daemon'.is_running /\ daemon'.pc = "sleep"
             /\ daemon'.timer = DaemonPollInterval
       /\ services = {} => daemon'.exit # "total_failure"
      ]_vars

\* With two services registered whose tasks have both ended, the supervisor
\* has stopped the daemon and ended its loop.
C15_Witness ==
    /\ services = ServiceNames /\ daemon.exit = "total_failure"
    /\ \A s \in services : task[s].pc = "done" /\ svc[s].state = "STOPPED"
    /\ \A k \in StopCallers : stopper[k].pc = "idle"

\* C19: when the supervisor of a running daemon wakes and finds a finished
\* task while another task is still active, it only takes the finished task
\* off its list: no task and no service changes, the daemon stays running
\* and the supervisor goes back to sleep; and a finished task is never
\* replaced by a new one.
C19_FinishedTaskOnlyObserved ==
    [][/\ (SupervisorWakes
              /\ (\E s \in daemon.tasks : task[s].pc = "done")
              /\ (\E p \in daemon.tasks : task[p].pc # "done"))
          => /\ daemon'.tasks = {s \in daemon.tasks : task[s].pc # "done"}
             /\ daemon'.is_running /\ daemon'.pc = "sleep"
             /\ task' = task /\ svc' = svc
             /\ daemon_stop_calls' = daemon_stop_calls
       /\ \A s \in services : task[s].pc = "done" => task'[s] = task[s]
      ]_vars

\* The task of one service has ended with a failure and is off the
\* supervisor's list, while the daemon runs on with the other service.
C19_Witness ==
    /\ daemon.is_running /\ daemon.pc = "sleep"
    /\ daemon.tasks = {"gpu_monitor_2"}
    /\ task["gpu_monitor"].pc = "done" /\ task["gpu_monitor"].result = "False"
    /\ task["gpu_monitor_2"].pc = "sleep"

\* The number of times the shutdown sequence of BeatriceDaemon.stop() has
\* been entered since the daemon's start.
ShutdownSequences ==
    Cardinality({k \in StopCallers : stopper[k].pc # "idle"})
    + (IF daemon.exit = "total_failure" THEN 1 ELSE 0)

\* C16: among all the invocations of BeatriceDaemon.stop() (signal handler,
\* explicit call, the supervisor's total-failure path) at most one enters the
\* shutdown sequence; once it is entered the daemon is marked not running;
\* and a stop() invoked on a daemon that is not running returns at once and
\* changes nothing.
C16_ShutdownSequenceAtMostOnce ==
    [][/\ ShutdownSequences' <= 1
       /\ ShutdownSequences' = 1 => ~daemon'.is_running
       /\ \A k \in StopCallers :
            (/\ ev' # ev /\ ev'.op = "daemon_stop" /\ ev'.svc = k
             /\ stopper[k].pc = "idle" /\ ~daemon.is_running)
          => /\ ev'.ret = "noop"
             /\ daemon' = daemon /\ stopper' = stopper /\ task' = task
             /\ svc' = svc /\ daemon_stop_calls' = daemon_stop_calls
      ]_vars

\* An explicit stop() has just returned without doing anything, while the
\* stop() of the signal handler is waiting for the cancelled tasks.
C16_Witness ==
    /\ ev.op = "daemon_stop" /\ ev.svc = "api" /\ ev.ret = "noop"
    /\ stopper["signal"].pc = "gather" /\ stopper["api"].pc = "idle"

\* C17: a start() called while the daemon is running returns at once: it
\* creates no task and leaves the start time, the registry, the list of
\* active tasks and the tasks themselves unchanged; so no more than one task
\* is ever created for a registered service.
C17_StartIsIdempotent ==
    [][/\ (ev' # ev /\ ev'.op = "daemon_start")
          => /\ ev'.ret = "noop"
             /\ daemon' = daemon /\ services' = services /\ task' = task
       /\ \A s \in ServiceNames : daemon'.created[s] <= 1
      ]_vars

\* A second start() has just returned from a running daemon that has one
\* task for each of its two services.
C17_Witness ==
    /\ ev.op = "daemon_start" /\ ev.ret = "noop"
    /\ daemon.is_running /\ daemon.start_time = 0
    /\ services = ServiceNames
    /\ \A s \in services : daemon.created[s] = 1 /\ task[s].pc # "none"

\* The service registered under name n holds the daemon's queue, if its
\* class has the injection hook.
Wired(reg, n) ==
    HasHook(reg.services[n]) => reg.service_queue[reg.services[n]] = reg.update_queue

\* C18: register_service with a name that is already registered changes
\* nothing: the registry keeps the original object and the rejected object's
\* queue is not assigned.  With a new name the object is stored and, if it
\* has set_update_queue, holds the daemon's queue; no task of that name
\* exists yet, and every service that has a task holds the daemon's queue.
C18_RegisterService ==
    [][/\ \A o \in Objects :
            (ev' # ev /\ ev'.op = "register_service" /\ ev'.svc = o)
            => IF registry.services[ObjName(o)] # NoObject
               THEN /\ registry' = registry /\ services' = services
                    /\ ev'.ret = "duplicate"
               ELSE /\ registry'.services[ObjName(o)] = o
                    /\ ObjName(o) \in services'
                    /\ Wired(registry', ObjName(o))
                    /\ ~HasHook(o) => registry'.service_queue[o] = NoQueue
                    /\ daemon.created[ObjName(o)] = 0
                    /\ \A p \in Objects \ {o} :
                          registry'.service_queue[p] = registry.service_queue[p]
                    /\ \A n \in ServiceNames \ {ObjName(o)} :
                          registry'.services[n] = registry.services[n]
       /\ \A n \in ServiceNames :
            daemon'.created[n] > 0 => n \in services' /\ Wired(registry', n)
      ]_vars

\* A second GPUMonitorService named gpu_monitor has just been rejected: the
\* first one is registered, holds the application's queue and has its task;
\* the rejected one holds no queue.
C18_Witness ==
    /\ ev.op = "register_service" /\ ev.svc = "gpu1_dup" /\ ev.ret = "duplicate"
    /\ registry.services[Monitor] = "gpu1"
    /\ registry.service_queue["gpu1"] = AppQueue
    /\ registry.service_queue["gpu1_dup"] = NoQueue
    /\ registry.services[Monitor2] = "plain2"
    /\ task[Monitor].pc = "pending"

\* C20: a call of check_health() changes neither the service's fields (state,
\* loop flag, last-collection time, stored health) nor the queue, the tasks
\* or the host, and it reports unhealthy whenever the state it finds is not
\* RUNNING.
C20_CheckHealthIsPureObservation ==
    [][\A s \in ServiceNames :
         (ev' # ev /\ ev'.op = "check_health" /\ ev'.svc = s)
         => /\ svc' = svc /\ update_queue' = update_queue
            /\ task' = task /\ rec' = rec
            /\ envVars' = envVars /\ daemonVars' = daemonVars
            /\ ev'.pre = svc[s].state
            /\ svc[s].state # "RUNNING" => ev'.ret = "unhealthy"
      ]_vars

\* check_health() has just reported unhealthy for a service that it found,
\* and left, in the STOPPED state with a recent collection on record and a
\* snapshot in the queue.
C20_Witness ==
    /\ ev.op = "check_health" /\ ev.svc = Monitor /\ ev.ret = "unhealthy"
    /\ ev.pre = "STOPPED" /\ ev.note = "not_running"
    /\ svc[Monitor].state = "STOPPED" /\ svc[Monitor].last_collection = 0
    /\ Len(update_queue) > 0

\* The coroutines of service s that are inside the monitoring loop.
Loops(s) ==
    (IF task[s].pc \in {"sleep", "backoff"} THEN 1 ELSE 0)
    + (IF rec[s].pc \in {"sleep", "backoff"} THEN 1 ELSE 0)

\* start() is entered on service s in this step, by its task or by recover().
StartEntered(s) ==
    \/ task[s].pc = "pending" /\ task'[s].pc # "pending"
          /\ task'[s].result # "cancelled"
    \/ rec[s].pc = "delay" /\ rec'[s].pc # "delay"

\* C21: a start() entered while the service's state is RUNNING returns True
\* in the same step; the service's fields and the queue are unchanged (no
\* pass was made), no stop() was called, and the number of coroutines inside
\* the monitoring loop is the same as before.
C21_StartOnRunningIsNoop ==
    [][\A s \in services :
         (StartEntered(s) /\ svc[s].state = "RUNNING")
         => /\ ev' = Ev("start", s, "True", "RUNNING", ev'.note)
            /\ svc' = svc /\ update_queue' = update_queue
            /\ stop_calls' = stop_calls
            /\ Loops(s)' = Loops(s)
      ]_vars

\* A new task's start() has just returned True from a service that the
\* start() inside recover() keeps RUNNING.
C21_Witness ==
    /\ ev.op = "start" /\ ev.pre = "RUNNING" /\ ev.ret = "True" /\ ev.note = "task"
    /\ svc[Monitor].state = "RUNNING" /\ svc[Monitor].is_running
    /\ rec[Monitor].pc = "sleep" /\ task[Monitor].pc = "done"

\* Dependency d of a service counts as failed: its check_health() raises or
\* reports a status that is not healthy.
DepFailed(d, raising) == d \in raising \/ ~CheckHealth(svc[d]).status

\* The failed dependencies of service s, in the order of the dictionary.
FailedList(s, raising) ==
    LET fs == SelectSeq(svc[s].dependencies, LAMBDA d : DepFailed(d, raising))
    IN  [i \in 1..Len(fs) |-> [dep |-> fs[i], error |-> fs[i] \in raising]]

\* C22: whichever dependencies' check_health() raise, check_dependencies()
\* returns True exactly when no dependency raises and each reports healthy
\* (so always with no dependency); when it returns False last_error lists
\* every failed dependency, a raising one marked as an error, and when it
\* returns True last_error is left as it was.
C22_CheckDependencies ==
    \A s \in services : \A raising \in SUBSET ServiceNames :
        LET res == CheckDependencies(svc, s, raising)
            deps == svc[s].dependencies
        IN  /\ res.ret = "True"
                <=> \A i \in 1..Len(deps) : ~DepFailed(deps[i], raising)
            /\ res.ret \in {"True", "False"}
            /\ res.ret = "False"
                => res.svc = [svc[s] EXCEPT !.health_last_error = FailedList(s, raising)]
            /\ res.ret = "True" => res.svc = svc[s]

\* check_dependencies() has just returned False on a service with two
\* dependencies: the first one stopped and reporting unhealthy, the second
\* one (the running service itself) raising.
C22_Witness ==
    /\ ev.op = "check_dependencies" /\ ev.svc = Monitor /\ ev.ret = "False"
    /\ svc[Monitor].dependencies = <<Monitor2, Monitor>>
    /\ svc[Monitor].health_last_error =
          <<[dep |-> Monitor2, error |-> FALSE], [dep |-> Monitor, error |-> TRUE]>>
    /\ svc[Monitor].state = "RUNNING" /\ svc[Monitor2].state = "STOPPED"

\* C23 as stated: when start() has returned and the service's state is
\* STOPPED, the vendor handle is released (nvidia_initialized is false) and
\* the loop flag _is_running is false.
C23_HandlesReleasedWhenStopped ==
    \A s \in services :
        (ev.op = "start" /\ ev.svc = s /\ svc[s].state = "STOPPED")
        => ~svc[s].nvidia_initialized /\ ~svc[s].is_running

\* C24 as stated: when the first sampling pass of a start() raises (the
\* error escapes the loop's own handling), start() returns False and the
\* service's state is ERROR once start() has returned.
C24_FatalErrorLeavesError ==
    [][\A s \in services :
         (backend = "always_raises" /\ StartEntered(s) /\ svc[s].state # "RUNNING")
         => /\ ev'.op = "start" /\ ev'.svc = s /\ ev'.ret = "False"
            /\ svc'[s].state = "ERROR"
      ]_vars

\* C25 as stated: a recover() that begins a cycle (budget remaining) on a
\* service whose backend is healthy returns True, with the service RUNNING
\* and recovery_attempts back at 0.
C25_RecoverSucceedsOnHealthyBackend ==
    (backend = "healthy" /\ rec[Monitor].pc = "delay")
    ~> (/\ ev.op = "recover" /\ ev.svc = Monitor /\ ev.ret = "True"
        /\ svc[Monitor].state = "RUNNING" /\ svc[Monitor].recovery_attempts = 0)

\* The task of service s makes a sampling pass in this step: the first pass
\* of a start(), or the pass after a between-pass sleep.
PassAttempted(s) ==
    /\ ~task[s].cancel /\ ~task'[s].cancel /\ task'[s] # task[s]
    /\ \/ task[s].pc = "pending" /\ svc[s].state # "RUNNING"
       \/ task[s].pc = "sleep" /\ task[s].timer = 0 /\ svc[s].is_running

\* The pass of this step raised: no collection was recorded.
PassRaised(s) == PassAttempted(s) /\ svc'[s].last_collection # 0

\* C26 as stated: a sampling pass that raises, the first pass of start()
\* included, does not end the loop: the task goes into a backoff sleep of
\* BackoffFactor times the monitoring interval.
C26_PassFailureBacksOff ==
    [][\A s \in services :
         PassRaised(s)
         => /\ task'[s].pc = "backoff"
            /\ task'[s].timer = BackoffFactor * svc[s].monitoring_interval
            /\ svc'[s].is_running
      ]_vars

\* C27 as stated: when a stop() of the service has just returned, no
\* coroutine of the service is inside the monitoring loop (asleep between
\* passes or in a backoff).
C27_LoopOverWhenStopReturns ==
    \A s \in services :
        (ev.op = "stop" /\ ev.svc = s) => Loops(s) = 0

\* C28: when the service's task has been cancelled while it sleeps between
\* passes or in a backoff, the next thing that happens to the task, before
\* any more of the sleep elapses, is that start() ends: no pass is made (the
\* queue and the last-collection time are unchanged) and the service's state
\* is STOPPED.
C28_CancelEndsLoopPromptly ==
    [][\A s \in services :
         (/\ task[s].cancel /\ task[s].pc \in {"sleep", "backoff"}
          /\ task'[s] # task[s])
         => /\ task'[s].pc = "done" /\ ev'.op = "start" /\ ev'.svc = s
            /\ svc'[s].state = "STOPPED"
            /\ update_queue' = update_queue
            /\ svc'[s].last_collection = svc[s].last_collection
      ]_vars

\* The task was cancelled in its backoff sleep, with a second of the sleep
\* left, and start() has just returned: the service is STOPPED and the last
\* collection is the one made before the failed pass.
C28_Witness ==
    /\ ev.op = "start" /\ ev.svc = Monitor /\ ev.ret = "True" /\ ev.pre = "RUNNING"
    /\ task[Monitor].pc = "done" /\ svc[Monitor].state = "STOPPED"
    /\ svc[Monitor].monitoring_interval = 1 /\ svc[Monitor].last_collection = 2

\* The lifecycle edges, each pair taken through its transient state:
\* start() leads from INIT or STOPPED through STARTING to RUNNING or ERROR,
\* stop() from RUNNING or ERROR through STOPPING to STOPPED.
StartEdge(a, b) == a \in {"INIT", "STOPPED"} /\ b \in {"RUNNING", "ERROR"}
StopEdge(a, b) == a \in {"RUNNING", "ERROR"} /\ b = "STOPPED"

\* C29 as stated: a step that changes a service's state is a stop() that
\* takes it from RUNNING or ERROR to STOPPED, a start() that takes it from
\* INIT or STOPPED to RUNNING, a start() that returns (having failed from
\* INIT or STOPPED, or having left its loop, its own stop() taking the
\* service from RUNNING or ERROR to STOPPED), or a step of recover().
C29_LifecycleEdgesOnly ==
    [][\A s \in services :
         svc'[s].state # svc[s].state
         => \/ ev'.op = "stop" /\ StopEdge(svc[s].state, svc'[s].state)
            \/ ev'.op = "none" /\ StartEdge(svc[s].state, svc'[s].state)
                  /\ svc'[s].state = "RUNNING"
            \/ ev'.op = "start"
                  /\ \/ StopEdge(svc[s].state, svc'[s].state)
                     \/ StartEdge(svc[s].state, "ERROR") /\ StopEdge("ERROR", svc'[s].state)
            \/ ev'.op \in {"recover", "recover_begin"}
      ]_vars

\* C30 as stated, for the first step after the exhaustion: when recover()
\* has just returned False because the retry budget is exhausted, whatever
\* happens next leaves the service in ERROR and unhealthy.
C30_ExhaustionIsPermanent ==
    [][\A s \in services :
         (ev.op = "recover" /\ ev.svc = s /\ ev.ret = "False" /\ ev.note = "exhausted")
         => /\ svc'[s].state = "ERROR"
            /\ ~CheckHealth(svc'[s]).status
      ]_vars

\* C31 as stated: when check_health() of a service has just reported
\* healthy, every dependency registered on the service reports healthy too.
C31_HealthyOnlyWithHealthyDependencies ==
    \A s \in services :
        (ev.op = "check_health" /\ ev.svc = s /\ ev.ret = "healthy")
        => \A i \in 1..Len(svc[s].dependencies) :
              CheckHealth(svc[svc[s].dependencies[i]]).status

\* C32 as stated: when the daemon's start() has returned, every stop() that
\* a signal or an explicit call began has completed: it has called stop() on
\* every registered service.
C32_StartReturnsAfterStopCompletes ==
    daemon.pc = "done"
    => \A k \in StopCallers :
          stopper[k].pc # "idle"
          => /\ stopper[k].pc = "done"
             /\ \A s \in services : daemon_stop_calls[s] >= 1

\* The entries of a device list that are real devices.
RealEntries(gl) == {j \in 1..Len(gl) : gl[j] # FallbackModel}

\* C33: in every snapshot a sampling pass produced, the active device count
\* is the number of entries of its device list whose model is not the
\* fallback sentinel; the fallback pseudo-device is never counted.
C33_ActiveCountIsRealDevices ==
    \A i \in 1..Len(update_queue) :
        update_queue[i].active_gpus = Cardinality(RealEntries(update_queue[i].gpus))

\* A pass on a macOS host without usable system_profiler JSON produced a
\* snapshot whose only entry is the fallback pseudo-device, counted as 0.
C33_Witness ==
    /\ platform = "Darwin" /\ psutil_ok
    /\ update_queue # <<>>
    /\ update_queue[Len(update_queue)].gpus = <<FallbackModel>>
    /\ update_queue[Len(update_queue)].active_gpus = 0
    /\ svc[Monitor].last_collection = 0

\* C34: the handoff queue is first-in first-out.  Every step leaves the
\* queue alone, puts one snapshot behind all the snapshots already queued,
\* or takes away the oldest one, leaving the others in their order; a
\* snapshot that was not queued never appears.
C34_QueueIsFifo ==
    [][\/ update_queue' = update_queue
       \/ /\ Len(update_queue') = Len(update_queue) + 1
          /\ SubSeq(update_queue', 1, Len(update_queue)) = update_queue
       \/ /\ update_queue # <<>>
          /\ ev'.op = "get"
          /\ update_queue' = Tail(update_queue)
      ]_vars

\* The consumer has just polled the queue of a host with devices and left
\* behind one snapshot, made by a pass after a stop(), that lists no device.
C34_Witness ==
    /\ ev.op = "get"
    /\ backend_devices > 0
    /\ Len(update_queue) = 1 /\ update_queue[1].gpus = <<>>
    /\ ~svc[Monitor].nvidia_initialized

\* C35 as stated: at most one monitoring loop of a service is active at any
\* time, whatever start(), stop() and recover() calls were made.
C35_AtMostOneLoop ==
    \A s \in services : Loops(s) <= 1

\* C36 as stated: a pass made by the loop of a service's task, after its
\* between-pass sleep, runs only while the service state is STARTING or
\* RUNNING.
C36_PassesOnlyWhileStartingOrRunning ==
    [][\A s \in services :
         (PassAttempted(s) /\ task[s].pc = "sleep")
         => svc[s].state \in {"STARTING", "RUNNING"}
      ]_vars

\* C37 as stated: on a host whose vendor backend was initialized when the
\* service was constructed, a service that is RUNNING, after any stop() and
\* start() or recover(), has its backend initialized.
C37_RestartKeepsBackend ==
    \A s \in services :
        svc[s].state = "RUNNING" => svc[s].nvidia_initialized

\* The is_healthy property of BaseService.
IsHealthy(r) == r.state = "RUNNING" /\ r.health_status

\* C38 as stated: right after check_health() returned a healthy result for
\* a RUNNING service, is_healthy is true; and is_healthy is false whenever
\* the state is not RUNNING.
C38_IsHealthyAgreesWithCheck ==
    \A s \in services :
        /\ (ev.op = "check_health" /\ ev.svc = s /\ ev.ret = "healthy"
               /\ svc[s].state = "RUNNING")
           => IsHealthy(svc[s])
        /\ svc[s].state # "RUNNING" => ~IsHealthy(svc[s])

\* C39 as stated: once start() has been called again after a stop(), the
\* supervisory loop of the preceding start() ends when it wakes from its
\* polling sleep; it does not go back to sleep next to the loop of the new
\* start().
C39_OldSupervisorEnds ==
    [][~ /\ daemon.second.pc # "none"
         /\ daemon.pc = "sleep" /\ daemon.timer = 0
         /\ daemon'.pc = "sleep" /\ daemon'.timer = DaemonPollInterval
      ]_vars

====
